---- MODULE Spec2Model ----
(***************************************************************************)
(* State-machine model of src/nostr_learning.py: seven coroutines that     *)
(* each open one websocket connection to a relay, send one frame and read  *)
(* inbound frames, plus the module's __main__ block.                       *)
(*                                                                         *)
(* One behaviour is one run of one operation (called directly, or through  *)
(* the __main__ block).  The relay and the transport are the environment:  *)
(* the relay may emit any frame of RelayFrames while the connection is     *)
(* open, and the transport may fail a connect, a send or a receive.        *)
(***************************************************************************)
EXTENDS Naturals, Sequences, FiniteSets, TLC

\* ------------------------------------------------------------------ bounds
\* Frames the relay emits during one run.
MaxFrames == 3
\* Frames queued on the connection and not yet read by the operation.
MaxInFlight == 2

\* ------------------------------------------------------------------ inputs
Keys == {"k1", "k2"}
\* A private-key object whose sign_event raises.
BadKey == "bad"
EventIds == {"e1", "e2"}
PubKeys == {"p1", "p2"}
Contents == {"hello"}
Reactions == {"+"}
Times == {1, 2}

PublishOps == {"send_event", "send_reaction", "undo_reaction", "request_event_deletion"}
QueryOps == {"query_all_events", "query_kind_0", "query_kind_1"}
\* The coroutines the module defines (lines 15, 41, 77, 106, 133, 164, 196).
DefinedOps == PublishOps \cup QueryOps
\* The name the __main__ block calls (line 231).
MainCallee == "query_all_events_by_pubkey"

\* ------------------------------------------------------------- JSON values
Str(s) == [t |-> "str", v |-> s]
Arr(s) == [t |-> "arr", v |-> s]
Obj(o) == [t |-> "obj", v |-> o]
Num(n) == [t |-> "num", v |-> n]
Bool(b) == [t |-> "bool", v |-> b]
Null == [t |-> "null", v |-> "null"]

\* A websocket text frame: either the encoding of a JSON value or text that
\* is not JSON at all.
Text(v) == [json |-> TRUE, val |-> v]
Garbage == [json |-> FALSE, val |-> Null]

\* json.loads: the value, or JSONDecodeError.
json_loads(w) ==
    IF w.json THEN [exc |-> "none", val |-> w.val]
    ELSE [exc |-> "JSONDecodeError", val |-> Null]

\* Python's obj[i] on a decoded JSON value: list, dict, number/bool/None.
GetItem(obj, i) ==
    IF obj.t = "arr"
    THEN IF i < Len(obj.v)
         THEN [exc |-> "none", val |-> obj.v[i + 1]]
         ELSE [exc |-> "IndexError", val |-> Null]
    ELSE IF obj.t = "obj"
    THEN [exc |-> "KeyError", val |-> Null]
    ELSE [exc |-> "TypeError", val |-> Null]

\* Python's == between decoded JSON values: values of different types are
\* unequal, never an error.
PyEq(a, b) == a.t = b.t /\ a.v = b.v

\* ------------------------------------------------------------ nostr events
\* PrivateKey.public_key.hex()
PublicKeyHex(key) == "pub:" \o key

\* Event(public_key, content, kind=1, tags=[]): created_at defaults to the
\* clock, the signature is unset.
Event(pubkey, content, kind, tags, now) ==
    [pubkey |-> pubkey, content |-> content, kind |-> kind, tags |-> tags,
     created_at |-> now, sig |-> "unsigned"]

\* Event.id: the hash of the canonical serialization
\* [0, pubkey, created_at, kind, tags, content] (the serialization itself
\* stands for its hash: an injective hash).
ComputeId(ev) ==
    ToString(<<0, ev.pubkey, ev.created_at, ev.kind, ev.tags, ev.content>>)

\* line 29
send_event_Event(key, event_content, now) ==
    Event(PublicKeyHex(key), event_content, 1, <<>>, now)

\* lines 57-62
send_reaction_Event(key, event_id, reaction, now) ==
    Event(PublicKeyHex(key), reaction, 7, <<<<"e", event_id>>>>, now)

\* A slip in line 90: the kind of send_reaction (line 60) kept when the
\* call was copied.
undo_reaction_Event_Kind7(key, reaction_event_id, now) ==
    Event(PublicKeyHex(key), "", 7, <<<<"e", reaction_event_id>>>>, now)

\* line 90
undo_reaction_Event(key, reaction_event_id, now) ==
    Event(PublicKeyHex(key), "", 5, <<<<"e", reaction_event_id>>>>, now)

\* line 120
request_event_deletion_Event(key, event_id, now) ==
    Event(PublicKeyHex(key), "", 5, <<<<"e", event_id>>>>, now)

\* The event each publish operation builds from its arguments.
EventOf(o, a) ==
    CASE o = "send_event" -> send_event_Event(a.key, a.content, a.now)
      [] o = "send_reaction" -> send_reaction_Event(a.key, a.target, a.content, a.now)
      [] o = "undo_reaction" -> undo_reaction_Event(a.key, a.target, a.now)
      [] o = "request_event_deletion" -> request_event_deletion_Event(a.key, a.target, a.now)

\* A slip in sign_event: the failure is swallowed and the event left
\* unsigned.
sign_event_Swallowed(key, ev) ==
    [exc |-> "none",
     ev |-> IF key = BadKey THEN ev
            ELSE [ev EXCEPT !.sig = "sig:" \o key \o ":" \o ComputeId(ev)]]

\* private_key.sign_event(event): raises for a key that cannot sign,
\* otherwise sets the signature over the event id.
sign_event(key, ev) ==
    IF key = BadKey
    THEN [exc |-> "SignError", ev |-> ev]
    ELSE [exc |-> "none",
          ev |-> [ev EXCEPT !.sig = "sig:" \o key \o ":" \o ComputeId(ev)]]

\* event.to_message(): ["EVENT", {id, pubkey, created_at, kind, tags, content, sig}]
to_message(ev) ==
    [type |-> "EVENT", sub |-> "", id |-> ComputeId(ev), body |-> <<ev>>]

\* -------------------------------------------------------- query requests
\* line 147: the subscription id carried by the REQ frame
query_all_events_ReqSubId == "all_events"
\* line 146: the subscription id inbound frames are compared with
query_all_events_SubId == "test-subscription-id"
\* lines 178, 180
query_kind_0_SubId == "test-subscription-id"
\* lines 210, 211
query_kind_1_SubId == "test-subscription-id"

\* line 147: ["REQ", "all_events", {}]
query_all_events_Request ==
    [type |-> "REQ", sub |-> query_all_events_ReqSubId, id |-> "",
     body |-> <<[authors |-> <<>>, kinds |-> <<>>]>>]

\* lines 177-181: ["REQ", subscription_id, {authors: [pub_key], kinds: [0]}]
query_kind_0_Request(pub_key) ==
    [type |-> "REQ", sub |-> query_kind_0_SubId, id |-> "",
     body |-> <<[authors |-> <<pub_key>>, kinds |-> <<0>>]>>]

\* lines 209-212: ["REQ", subscription_id, {authors: [pub_key], kinds: [1]}]
query_kind_1_Request(pub_key) ==
    [type |-> "REQ", sub |-> query_kind_1_SubId, id |-> "",
     body |-> <<[authors |-> <<pub_key>>, kinds |-> <<1>>]>>]

RequestOf(o, a) ==
    CASE o = "query_all_events" -> query_all_events_Request
      [] o = "query_kind_0" -> query_kind_0_Request(a.pub)
      [] o = "query_kind_1" -> query_kind_1_Request(a.pub)

\* The local subscription_id each query compares inbound frames with.
SubIdOf(o) ==
    CASE o = "query_all_events" -> query_all_events_SubId
      [] o = "query_kind_0" -> query_kind_0_SubId
      [] o = "query_kind_1" -> query_kind_1_SubId

\* A slip in the loop's condition: the comparison of event[1] with the
\* subscription id left out, so that any EVENT frame ends the loop.
LoopBody_AnyEvent(response, subscription_id) ==
    LET parsed == json_loads(response) IN
    IF parsed.exc # "none" THEN [kind |-> "raise", exc |-> parsed.exc, val |-> Null]
    ELSE
    LET e0 == GetItem(parsed.val, 0) IN
    IF e0.exc # "none" THEN [kind |-> "raise", exc |-> e0.exc, val |-> Null]
    ELSE IF ~PyEq(e0.val, Str("EVENT")) THEN [kind |-> "continue", exc |-> "none", val |-> Null]
    ELSE
    LET e2 == GetItem(parsed.val, 2) IN
    IF e2.exc # "none" THEN [kind |-> "raise", exc |-> e2.exc, val |-> Null]
    ELSE [kind |-> "break", exc |-> "none", val |-> e2.val]

\* One iteration of the receive loop on a received frame (lines 157-161,
\* 190-193, 220-223): break with event[2], continue, or raise.
LoopBody(response, subscription_id) ==
    LET parsed == json_loads(response) IN
    IF parsed.exc # "none" THEN [kind |-> "raise", exc |-> parsed.exc, val |-> Null]
    ELSE
    LET frame == parsed.val
        e0 == GetItem(frame, 0)
    IN
    IF e0.exc # "none" THEN [kind |-> "raise", exc |-> e0.exc, val |-> Null]
    ELSE IF ~PyEq(e0.val, Str("EVENT")) THEN [kind |-> "continue", exc |-> "none", val |-> Null]
    ELSE
    LET e1 == GetItem(frame, 1) IN
    IF e1.exc # "none" THEN [kind |-> "raise", exc |-> e1.exc, val |-> Null]
    ELSE IF ~PyEq(e1.val, Str(subscription_id)) THEN [kind |-> "continue", exc |-> "none", val |-> Null]
    ELSE
    LET e2 == GetItem(frame, 2) IN
    IF e2.exc # "none" THEN [kind |-> "raise", exc |-> e2.exc, val |-> Null]
    ELSE [kind |-> "break", exc |-> "none", val |-> e2.val]

\* A slip: the connection used without `async with`, so that nothing
\* closes it when the coroutine is left.
AExit_Leak(c) == c

\* The state of the connection when the `async with` block is left, by
\* return, break or exception: __aexit__ closes it.
AExit(c) == IF c = "open" THEN "closed" ELSE c

\* ------------------------------------------------------------------- state
VARIABLES
    viaMain,    \* the run started at the __main__ block
    envValid,   \* NOSTR_PRIVATE_KEY holds a valid nsec
    op,         \* the coroutine running ("none" before __main__ calls one)
    args,       \* its arguments
    pc,         \* main, build, sign, connect, send, recv, done, failed
    error,      \* the exception that ended the run ("none" otherwise)
    event,      \* the publish operation's event (a sequence of 0 or 1)
    conn,       \* none, open, closed
    opened,     \* connections opened so far
    attempts,   \* websockets.connect calls so far
    outbound,   \* frames the operation sent, in order
    inbox,      \* frames emitted by the relay and not yet read
    emitted,    \* number of frames the relay emitted
    arrived,    \* every frame the relay emitted, in order of arrival
    received,   \* frames recv() returned, in order
    delivered,  \* what the operation printed as its event or response
                \* (lines 39, 75, 102, 130, 160, 192, 222)
    echoed,     \* the decoded frames query_all_events printed (line 158)
    steps       \* the steps the operation performed, in order

vars == <<viaMain, envValid, op, args, pc, error, event, conn, opened, attempts,
          outbound, inbox, emitted, arrived, received, delivered, echoed, steps>>

Terminal == {"done", "failed"}

NoArgs == [key |-> "k1", target |-> "e1", content |-> "", now |-> 1, pub |-> "p1"]

ArgsOf(o) ==
    CASE o = "send_event" ->
            {[NoArgs EXCEPT !.key = k, !.content = c, !.now = n] :
                k \in Keys \cup {BadKey}, c \in Contents, n \in Times}
      [] o = "send_reaction" ->
            {[NoArgs EXCEPT !.key = k, !.target = e, !.content = c, !.now = n] :
                k \in Keys \cup {BadKey}, e \in EventIds, c \in Reactions, n \in Times}
      [] o \in {"undo_reaction", "request_event_deletion"} ->
            {[NoArgs EXCEPT !.key = k, !.target = e, !.now = n] :
                k \in Keys \cup {BadKey}, e \in EventIds, n \in Times}
      [] o = "query_all_events" -> {NoArgs}
      [] o \in {"query_kind_0", "query_kind_1"} ->
            {[NoArgs EXCEPT !.pub = p] : p \in PubKeys}

Init ==
    /\ viaMain \in BOOLEAN
    /\ envValid \in BOOLEAN
    /\ \/ viaMain /\ op = "none" /\ args = NoArgs /\ pc = "main"
       \/ ~viaMain /\ envValid /\ op \in DefinedOps /\ args \in ArgsOf(op) /\ pc = "build"
    /\ error = "none"
    /\ event = <<>>
    /\ conn = "none"
    /\ opened = 0
    /\ attempts = 0
    /\ outbound = <<>>
    /\ inbox = <<>>
    /\ emitted = 0
    /\ arrived = <<>>
    /\ received = <<>>
    /\ delivered = <<>>
    /\ echoed = <<>>
    /\ steps = <<>>

\* ----------------------------------------------------------------- actions
\* Leaving the coroutine with an exception: the `async with` exit runs first.
Raise(e) ==
    /\ pc' = "failed"
    /\ error' = e
    /\ conn' = AExit(conn)

\* lines 226-231: load the environment, build the key, look up the callee.
Main ==
    /\ pc = "main"
    /\ IF ~envValid
       THEN Raise("InvalidKey") /\ UNCHANGED <<op, args>>
       ELSE IF MainCallee \in DefinedOps
       THEN /\ op' = MainCallee
            /\ args' \in ArgsOf(MainCallee)
            /\ pc' = "build"
            /\ UNCHANGED <<error, conn>>
       ELSE Raise("NameError") /\ UNCHANGED <<op, args>>
    /\ UNCHANGED <<echoed, arrived, viaMain, envValid, event, opened, attempts, outbound, inbox,
                   emitted, received, delivered, steps>>

\* lines 29, 57-62, 90, 120: construct the event.
BuildEvent ==
    /\ pc = "build" /\ op \in PublishOps
    /\ event' = <<EventOf(op, args)>>
    /\ pc' = "sign"
    /\ steps' = Append(steps, "build")
    /\ UNCHANGED <<echoed, arrived, viaMain, envValid, op, args, error, conn, opened, attempts,
                   outbound, inbox, emitted, received, delivered>>

\* lines 30, 63, 91, 121: sign it.
SignEvent ==
    /\ pc = "sign"
    /\ LET r == sign_event(args.key, event[1]) IN
       /\ event' = <<r.ev>>
       /\ IF r.exc = "none"
          THEN pc' = "connect" /\ UNCHANGED <<error, conn>>
          ELSE Raise(r.exc)
    /\ steps' = Append(steps, "sign")
    /\ UNCHANGED <<echoed, arrived, viaMain, envValid, op, args, opened, attempts, outbound, inbox,
                   emitted, received, delivered>>

\* lines 146-147, 177-181, 209-212: construct the REQ.
BuildRequest ==
    /\ pc = "build" /\ op \in QueryOps
    /\ pc' = "connect"
    /\ steps' = Append(steps, "build")
    /\ UNCHANGED <<echoed, arrived, viaMain, envValid, op, args, error, event, conn, opened, attempts,
                   outbound, inbox, emitted, received, delivered>>

\* `async with websockets.connect(relay, ssl=ssl_context)`: the handshake
\* succeeds.
ConnectOk ==
    /\ pc = "connect"
    /\ conn' = "open"
    /\ opened' = opened + 1
    /\ attempts' = attempts + 1
    /\ pc' = "send"
    /\ steps' = Append(steps, "connect")
    /\ UNCHANGED <<echoed, arrived, viaMain, envValid, op, args, error, event, outbound, inbox,
                   emitted, received, delivered>>

\* The handshake fails: no connection exists.
ConnectFail ==
    /\ pc = "connect"
    /\ attempts' = attempts + 1
    /\ Raise("ConnectionError")
    /\ steps' = Append(steps, "connect")
    /\ UNCHANGED <<echoed, arrived, viaMain, envValid, op, args, event, opened, outbound, inbox,
                   emitted, received, delivered>>

\* `await websocket.send(...)`: lines 35, 70, 97, 126, 152, 186, 217.
SendOk ==
    /\ pc = "send"
    /\ outbound' = Append(outbound,
                          IF op \in PublishOps THEN to_message(event[1])
                          ELSE RequestOf(op, args))
    /\ pc' = "recv"
    /\ steps' = Append(steps, "send")
    /\ UNCHANGED <<echoed, arrived, viaMain, envValid, op, args, error, event, conn, opened, attempts,
                   inbox, emitted, received, delivered>>

\* send raises ConnectionClosed: the transport dropped.
SendFail ==
    /\ pc = "send"
    /\ Raise("ConnectionClosed")
    /\ steps' = Append(steps, "send")
    /\ UNCHANGED <<echoed, arrived, viaMain, envValid, op, args, event, opened, attempts, outbound,
                   inbox, emitted, received, delivered>>

\* ------------------------------------------------------------ environment
SubIds == {"test-subscription-id", "all_events"}
Payloads == {"ev1", "ev2"}
\* The id of some event other than the one sent.
OtherId == ComputeId(Event("pub:other", "", 1, <<>>, 1))

SentIds == {outbound[i].id : i \in {j \in 1..Len(outbound) : outbound[j].type = "EVENT"}}

MalformedFrames ==
    {Garbage, Text(Obj("{}")), Text(Num(1)), Text(Arr(<<>>)),
     Text(Arr(<<Str("EVENT")>>))}

EventFrames ==
    {Text(Arr(<<Str("EVENT"), Str(s), Obj(p)>>)) : s \in SubIds, p \in Payloads}
    \cup {Text(Arr(<<Str("EVENT"), Str(s)>>)) : s \in SubIds}

OkFrames ==
    {Text(Arr(<<Str("OK"), Str(i), Bool(TRUE), Str("")>>)) : i \in SentIds \cup {OtherId}}
    \cup {Text(Arr(<<Str("OK"), Str(i), Bool(FALSE), Str("blocked: spam")>>)) : i \in SentIds}

OtherFrames ==
    {Text(Arr(<<Str("EOSE"), Str(s)>>)) : s \in SubIds}
    \cup {Text(Arr(<<Str("CLOSED"), Str(s), Str("closed")>>)) : s \in SubIds}
    \cup {Text(Arr(<<Str("NOTICE"), Str("hello")>>))}

RelayFrames == MalformedFrames \cup EventFrames \cup OkFrames \cup OtherFrames

\* The relay sends a frame on the open connection.
RelayEmit ==
    /\ conn = "open"
    /\ emitted < MaxFrames
    /\ Len(inbox) < MaxInFlight
    /\ \E f \in RelayFrames : inbox' = Append(inbox, f)
    /\ emitted' = emitted + 1
    /\ arrived' = Append(arrived, inbox'[Len(inbox')])
    /\ UNCHANGED <<viaMain, envValid, op, args, pc, error, event, conn, opened,
                   attempts, outbound, received, delivered, echoed, steps>>

\* lines 38-39, 74-75, 101-102, 129-130: one recv, print it, leave the block.
PublishRecv ==
    /\ pc = "recv" /\ op \in PublishOps
    /\ inbox # <<>>
    /\ received' = Append(received, Head(inbox))
    /\ inbox' = Tail(inbox)
    /\ delivered' = Append(delivered, Head(inbox))
    /\ pc' = "done"
    /\ conn' = AExit(conn)
    /\ steps' = Append(steps, "recv")
    /\ UNCHANGED <<echoed, arrived, viaMain, envValid, op, args, error, event, opened, attempts,
                   outbound, emitted>>

\* lines 155-161, 188-193, 218-223: one iteration of `while True`.
QueryRecv ==
    /\ pc = "recv" /\ op \in QueryOps
    /\ inbox # <<>>
    /\ received' = Append(received, Head(inbox))
    /\ inbox' = Tail(inbox)
    /\ LET r == LoopBody(Head(inbox), SubIdOf(op)) IN
       CASE r.kind = "break" ->
                /\ delivered' = Append(delivered, r.val)
                /\ pc' = "done"
                /\ conn' = AExit(conn)
                /\ UNCHANGED error
         [] r.kind = "continue" ->
                UNCHANGED <<delivered, pc, conn, error>>
         [] r.kind = "raise" ->
                Raise(r.exc) /\ UNCHANGED delivered
    /\ echoed' = IF op = "query_all_events" /\ json_loads(Head(inbox)).exc = "none"
                  THEN Append(echoed, json_loads(Head(inbox)).val)
                  ELSE echoed
    /\ steps' = IF steps[Len(steps)] = "recv" THEN steps ELSE Append(steps, "recv")
    /\ UNCHANGED <<arrived, viaMain, envValid, op, args, event, opened, attempts, outbound,
                   emitted>>

\* recv raises ConnectionClosed: the transport dropped with nothing queued.
RecvFail ==
    /\ pc = "recv"
    /\ inbox = <<>>
    /\ Raise("ConnectionClosed")
    /\ UNCHANGED <<echoed, arrived, viaMain, envValid, op, args, event, opened, attempts, outbound,
                   inbox, emitted, received, delivered, steps>>

\* The steps the program takes by itself once it can.
Program ==
    \/ Main
    \/ BuildEvent
    \/ SignEvent
    \/ BuildRequest
    \/ ConnectOk
    \/ ConnectFail
    \/ SendOk
    \/ SendFail
    \/ PublishRecv
    \/ QueryRecv

Next ==
    \/ Main
    \/ BuildEvent
    \/ SignEvent
    \/ BuildRequest
    \/ ConnectOk
    \/ ConnectFail
    \/ SendOk
    \/ SendFail
    \/ RelayEmit
    \/ PublishRecv
    \/ QueryRecv
    \/ RecvFail

Spec == Init /\ [][Next]_vars

\* The event loop runs a coroutine that can proceed; nothing obliges the
\* relay to send or the transport to fail.
FairSpec == Spec /\ WF_vars(Program)

\* ---------------------------------------------------- reading the frames
\* An inbound frame ["EVENT", s, ...]: an EVENT frame labelled with
\* subscription id s.
IsEventFor(w, s) ==
    /\ w.json
    /\ w.val.t = "arr"
    /\ Len(w.val.v) >= 2
    /\ PyEq(w.val.v[1], Str("EVENT"))
    /\ PyEq(w.val.v[2], Str(s))

\* The type word of a well-formed relay frame, "" for anything else.
FrameType(w) ==
    IF w.json /\ w.val.t = "arr" /\ Len(w.val.v) >= 2 /\ w.val.v[1].t = "str"
    THEN w.val.v[1].v
    ELSE ""

\* The frames the bad-frame rule names: not JSON, not a JSON array, an
\* empty array, ["EVENT"] with no subscription id.
IsBadFrame(w) ==
    \/ ~w.json
    \/ w.val.t # "arr"
    \/ Len(w.val.v) = 0
    \/ Len(w.val.v) = 1 /\ PyEq(w.val.v[1], Str("EVENT"))

\* A well-formed frame that is not an EVENT frame for subscription s.
IsOtherFrame(w, s) ==
    /\ ~IsEventFor(w, s)
    /\ \/ FrameType(w) \in {"EOSE", "NOTICE", "OK", "CLOSED"}
       \/ FrameType(w) = "EVENT" /\ Len(w.val.v) = 3

\* EOSE or CLOSED for subscription s.
IsEndMarker(w, s) ==
    /\ FrameType(w) \in {"EOSE", "CLOSED"}
    /\ PyEq(w.val.v[2], Str(s))

\* The place of the first EVENT frame for s in a sequence of frames, 0 when
\* there is none.
FirstMatch(seq, s) ==
    LET I == {i \in 1..Len(seq) : IsEventFor(seq[i], s)} IN
    IF I = {} THEN 0 ELSE CHOOSE i \in I : \A j \in I : i <= j

Last(seq) == seq[Len(seq)]

\* Whether sig is the signature of the event by the owner of its pubkey.
Verify(ev) ==
    \E k \in Keys : ev.pubkey = PublicKeyHex(k)
                    /\ ev.sig = "sig:" \o k \o ":" \o ComputeId(ev)

ParseErrors == {"JSONDecodeError", "IndexError", "KeyError", "TypeError"}

\* The subscription id carried by the REQ frame the operation sent.
SentSubId == outbound[1].sub

\* ------------------------------------------------------------------ claims

\* C1: query_all_events ends on the first matching event: once it has read
\* an EVENT frame (with its event) labelled with the subscription id of the
\* REQ frame it sent, it has printed that event, left the receive loop and
\* closed the connection.
C1_EndsOnFirstMatch ==
    (op = "query_all_events"
     /\ \E i \in 1..Len(received) :
            IsEventFor(received[i], SentSubId) /\ Len(received[i].val.v) = 3)
    => /\ pc = "done"
       /\ conn = "closed"
       /\ LET ev == received[FirstMatch(received, SentSubId)].val.v[3] IN
          \/ delivered = <<ev>>
          \/ \E i \in 1..Len(echoed) :
                /\ echoed[i].t = "arr"
                /\ Len(echoed[i].v) = 3
                /\ echoed[i].v[3] = ev

\* C2: a publish operation completes its acknowledgement wait only on an OK
\* frame for the id of the event it sent.
C2_WaitEndsOnlyOnMatchingOk ==
    (op \in PublishOps /\ pc = "done")
    => /\ FrameType(Last(received)) = "OK"
       /\ PyEq(Last(received).val.v[2], Str(outbound[1].id))

\* C3: a publish operation always terminates: in every run where the relay
\* never sends a frame, it eventually returns or fails.
C3_PublishTerminates ==
    <>(pc \in Terminal \/ emitted > 0 \/ op \in QueryOps)

\* C4: a bad inbound frame does not kill a query: after reading one, the
\* operation is back in its receive loop with the connection open and no
\* error (unless the transport dropped afterwards).
C4_BadFrameDiscarded ==
    (op \in QueryOps /\ received # <<>> /\ IsBadFrame(Last(received)))
    => \/ pc = "recv" /\ conn = "open" /\ error = "none"
       \/ error = "ConnectionClosed"

\* C5: query_kind_0 and query_kind_1 read frames in arrival order and
\* deliver at most one event; a delivered event is that of the first frame,
\* in arrival order, that is an EVENT frame for the subscription id of the
\* REQ; reading stops there; a well-formed frame of another kind or for
\* another subscription is dropped and the loop goes on.
C5_FirstMatchDelivered ==
    op \in {"query_kind_0", "query_kind_1"}
    => /\ arrived = received \o inbox
       /\ Len(delivered) <= 1
       /\ delivered # <<>> =>
            /\ pc = "done"
            /\ FirstMatch(arrived, SentSubId) = Len(received)
            /\ delivered = <<Last(received).val.v[3]>>
       /\ pc = "done" => delivered # <<>>
       /\ (received # <<>> /\ IsOtherFrame(Last(received), SentSubId)) =>
            \/ pc = "recv" /\ error = "none" /\ delivered = <<>> /\ conn = "open"
            \/ error = "ConnectionClosed" /\ delivered = <<>>

C5_Witness ==
    /\ op = "query_kind_1"
    /\ pc = "done"
    /\ Len(received) = 2
    /\ FrameType(received[1]) = "EVENT"
    /\ inbox # <<>>
    /\ IsEventFor(inbox[1], SentSubId)

\* C6: a query ends when the end marker of its subscription arrives: once
\* query_kind_0 or query_kind_1 has read EOSE or CLOSED for the subscription
\* id of its REQ, it stops receiving and returns instead of waiting in the
\* receive loop.
C6_EndMarkerEndsQuery ==
    (/\ op \in {"query_kind_0", "query_kind_1"}
     /\ received # <<>>
     /\ IsEndMarker(Last(received), SentSubId))
    => pc \in Terminal

\* C7: undo_reaction and request_event_deletion each send exactly one EVENT
\* frame, whose event has kind 5, empty content, the signer's public key and
\* the single tag ["e", <id>]; for the same key and id it is the event the
\* other operation sends, up to created_at; each then performs one receive.
DeletionOps == {"undo_reaction", "request_event_deletion"}

\* An event without the fields that depend on the clock.
UpToCreatedAt(ev) ==
    [pubkey |-> ev.pubkey, content |-> ev.content, kind |-> ev.kind, tags |-> ev.tags]

C7_DeletionEvent ==
    op \in DeletionOps
    => /\ Len(outbound) <= 1
       /\ Len(received) <= 1
       /\ pc \in {"recv", "done"} => Len(outbound) = 1
       /\ pc = "done" => Len(received) = 1
       /\ outbound # <<>> =>
            LET ev == outbound[1].body[1] IN
            /\ outbound[1].type = "EVENT"
            /\ ev.kind = 5
            /\ ev.content = ""
            /\ ev.pubkey = PublicKeyHex(args.key)
            /\ ev.tags = <<<<"e", args.target>>>>
            /\ \A o \in DeletionOps, n \in Times :
                 UpToCreatedAt(EventOf(o, [args EXCEPT !.now = n])) = UpToCreatedAt(ev)

C7_Witness ==
    /\ op = "undo_reaction"
    /\ pc = "done"
    /\ args.key = "k2"
    /\ args.target = "e2"
    /\ Len(outbound) = 1

\* C8: an operation never opens more than one connection nor sends more
\* than one frame; once its send has succeeded it has opened exactly one
\* connection and sent exactly one frame, an EVENT for a publish operation
\* and a REQ for a query; when it has ended, by return or by an error of
\* send, receive or frame parsing, no connection is left open.
C8_OneConnectionOneFrame ==
    /\ opened <= 1
    /\ attempts <= 1
    /\ Len(outbound) <= 1
    /\ \A i \in 1..Len(outbound) :
         outbound[i].type = (IF op \in PublishOps THEN "EVENT" ELSE "REQ")
    /\ pc \in {"recv", "done"} => opened = 1 /\ Len(outbound) = 1
    /\ conn = "open" => pc \in {"send", "recv"}
    /\ pc \in Terminal => conn # "open"
    /\ (pc \in Terminal /\ opened = 1) => conn = "closed"

C8_Witness ==
    /\ op = "query_kind_0"
    /\ pc = "failed"
    /\ error \in ParseErrors
    /\ opened = 1
    /\ Len(outbound) = 1
    /\ conn = "closed"

\* C9: a publish operation builds, signs, connects, sends and receives in
\* that order; every frame it sends carries a signed event; when signing
\* fails it ends with that error, no connection was opened and no frame
\* sent.
C9_SignBeforeConnect ==
    op \in PublishOps
    => /\ \E n \in 0..5 : steps = SubSeq(<<"build", "sign", "connect", "send", "recv">>, 1, n)
       /\ \A i \in 1..Len(outbound) :
            /\ outbound[i].body[1].sig # "unsigned"
            /\ Verify(outbound[i].body[1])
       /\ error = "SignError" =>
            /\ pc = "failed"
            /\ conn = "none" /\ opened = 0 /\ attempts = 0
            /\ outbound = <<>>
       /\ (args.key = BadKey /\ pc \notin {"build", "sign"}) => error = "SignError"

C9_Witness ==
    /\ op = "send_reaction"
    /\ error = "SignError"
    /\ steps = <<"build", "sign">>

\* C10: run as the main program with a valid key and relay URL, the module
\* invokes an operation it defines and reaches the opening of a connection.
C10_MainRunsDefinedOp ==
    (viaMain /\ envValid /\ pc \in Terminal)
    => /\ op \in DefinedOps
       /\ attempts >= 1

====
